---------------------------- MODULE Spec2Model ----------------------------
(***************************************************************************)
(* Model of backend/server.js: an Express service holding two in-memory    *)
(* arrays, users and posts, and answering CRUD requests on them.  Every    *)
(* handler runs to completion (Node's single-threaded event loop), so one  *)
(* request is one atomic action.  The file holds the route table twice;    *)
(* the copies differ in the seed names and in where parseInt is written,   *)
(* not in behaviour, and the model follows the first (lines 1-235).        *)
(*                                                                         *)
(* JSON values are tagged records so that values of different JavaScript   *)
(* types can be compared; a JavaScript object is a function from the keys  *)
(* it owns to their values.                                                *)
(***************************************************************************)
EXTENDS Integers, Sequences, FiniteSets

VARIABLES users, posts, req, res, old, steps

vars == <<users, posts, req, res, old, steps>>

\* The number of requests one run of the model serves.
MaxSteps == 3

(***************************************************************************)
(* JavaScript values                                                       *)
(***************************************************************************)
Num(n) == [t |-> "number", n |-> n, s |-> ""]
Str(s) == [t |-> "string", n |-> 0, s |-> s]
Null == [t |-> "null", n |-> 0, s |-> ""]
NaN == [t |-> "NaN", n |-> 0, s |-> ""]
Undefined == [t |-> "undefined", n |-> 0, s |-> ""]

\* The empty object {} and the empty string of characters.
EmptyObject == [k \in {} |-> Undefined]
NoParam == <<>>

\* ToBoolean, as applied by !name, !email, !title, !body, !user and ||.
Truthy(v) ==
    \/ v.t = "number" /\ v.n # 0
    \/ v.t = "string" /\ v.s # ""

\* a === b: NaN equals nothing, not even itself.
StrictEquals(a, b) == a.t # "NaN" /\ a = b

\* obj.k, and the binding that { k } = obj makes: undefined for a key the
\* object does not own.
Prop(obj, k) == IF k \in DOMAIN obj THEN obj[k] ELSE Undefined

\* { ...a, ...b }: the keys of both, b's value where b owns the key.
Spread(a, b) ==
    [k \in (DOMAIN a) \cup (DOMAIN b) |-> IF k \in DOMAIN b THEN b[k] ELSE a[k]]

\* ToNumber, as Math.max applies it to each argument.  The strings of this
\* model are the empty string and strings that are not numerals.
ToNumber(v) ==
    CASE v.t = "number" -> v
      [] v.t = "null" -> Num(0)
      [] v.t = "string" /\ v.s = "" -> Num(0)
      [] OTHER -> NaN

RECURSIVE MaxOf(_)
MaxOf(S) ==
    LET x == CHOOSE y \in S : TRUE
    IN  IF S = {x} THEN x
        ELSE LET m == MaxOf(S \ {x}) IN IF x > m THEN x ELSE m

\* Math.max(...vs) of a non-empty list: NaN as soon as one argument is.
MathMax(vs) ==
    LET ns == {ToNumber(vs[i]) : i \in 1..Len(vs)}
    IN  IF NaN \in ns THEN NaN ELSE Num(MaxOf({v.n : v \in ns}))

\* v + 1 for the number Math.max returned.
PlusOne(v) == IF v.t = "NaN" THEN NaN ELSE Num(v.n + 1)

(***************************************************************************)
(* parseInt(req.params.id).  A route parameter is a sequence of            *)
(* characters: leading blanks are skipped, a sign is read, then the        *)
(* longest run of decimal digits; no digit at all gives NaN.  (parseInt    *)
(* reads a 0x prefix as hexadecimal; no parameter of the model has one.)   *)
(***************************************************************************)
Digits == <<"0", "1", "2", "3", "4", "5", "6", "7", "8", "9">>

IsDigit(c) == \E d \in 1..Len(Digits) : Digits[d] = c

DigitValue(c) == (CHOOSE d \in 1..Len(Digits) : Digits[d] = c) - 1

RECURSIVE SkipBlanks(_)
SkipBlanks(cs) ==
    IF cs # <<>> /\ Head(cs) = " " THEN SkipBlanks(Tail(cs)) ELSE cs

RECURSIVE DigitPrefix(_)
DigitPrefix(cs) ==
    IF cs # <<>> /\ IsDigit(Head(cs))
    THEN <<Head(cs)>> \o DigitPrefix(Tail(cs))
    ELSE <<>>

RECURSIVE DecimalValue(_)
DecimalValue(ds) ==
    IF ds = <<>> THEN 0
    ELSE 10 * DecimalValue(SubSeq(ds, 1, Len(ds) - 1)) + DigitValue(ds[Len(ds)])

ParseInt(param) ==
    LET cs == SkipBlanks(param)
        negative == cs # <<>> /\ Head(cs) = "-"
        signed == cs # <<>> /\ Head(cs) \in {"-", "+"}
        ds == DigitPrefix(IF signed THEN Tail(cs) ELSE cs)
    IN  IF ds = <<>> THEN NaN
        ELSE Num(IF negative THEN 0 - DecimalValue(ds) ELSE DecimalValue(ds))

(***************************************************************************)
(* Array helpers                                                           *)
(***************************************************************************)
\* items.findIndex(x => x.id === id), counted from 1; 0 where JavaScript
\* returns -1.
FindIndex(items, id) ==
    IF \E i \in 1..Len(items) : StrictEquals(Prop(items[i], "id"), id)
    THEN CHOOSE i \in 1..Len(items) :
            /\ StrictEquals(Prop(items[i], "id"), id)
            /\ \A j \in 1..(i - 1) : ~StrictEquals(Prop(items[j], "id"), id)
    ELSE 0

\* A removal that fills the hole with the last element instead of shifting.
SpliceSwapRemove(items, i) ==
    IF i = Len(items) THEN SubSeq(items, 1, Len(items) - 1)
    ELSE [SubSeq(items, 1, Len(items) - 1) EXCEPT ![i] = items[Len(items)]]

\* items.splice(i, 1), i counted from 1.
Splice(items, i) == SubSeq(items, 1, i - 1) \o SubSeq(items, i + 1, Len(items))

\* const generateId = (items) => ...
GenerateId(items) ==
    IF Len(items) > 0
    THEN PlusOne(MathMax([i \in 1..Len(items) |-> Prop(items[i], "id")]))
    ELSE Num(1)

(***************************************************************************)
(* Requests and responses                                                  *)
(***************************************************************************)
Request(method, path, param, body) ==
    [method |-> method, path |-> path, param |-> param, body |-> body]

\* res.status(status).json(body); kind tells what the body is.
Response(status, kind, body) == [status |-> status, kind |-> kind, body |-> body]

ErrorBody(msg) == [error |-> Str(msg)]

\* The route parameters of the model's requests: 1, 2, 3, 2x and abc.
IdParams == {<<"1">>, <<"2">>, <<"3">>, <<"2", "x">>, <<"a", "b", "c">>}

\* Request bodies of POST and PUT /api/users.
UserBodies ==
    { [id |-> Num(1), name |-> Str("Sam"), email |-> Str("s@x.com"),
       role |-> Str("admin")],
      [name |-> Str("Sam")],
      [name |-> Str(""), email |-> Str("s@x.com")] }

\* Request bodies of PATCH /api/users/:id.
UserPatches ==
    { EmptyObject,
      [role |-> Str("admin"), email |-> Null],
      [id |-> Num(1)],
      [id |-> Str("x")] }

\* Request bodies of POST and PUT /api/posts.
PostBodies ==
    { [title |-> Str("Note"), body |-> Str("text")],
      [id |-> Num(1), title |-> Str("Memo"), body |-> Str("more"),
       userId |-> Num(2), tags |-> Str("news")],
      [title |-> Str("Note"), userId |-> Num(2)],
      [title |-> Str(""), body |-> Str("text")],
      [title |-> Str("Note"), body |-> Str("text"), userId |-> Num(0)] }

\* Request bodies of PATCH /api/posts/:id.
PostPatches ==
    { EmptyObject,
      [tags |-> Str("news"), userId |-> Num(0)],
      [id |-> Num(1)] }

\* The values new Date().toISOString() takes in the model.
Timestamps == {"2024-01-01T00:00:00.000Z", "2024-01-01T00:00:01.000Z"}

\* let users = [...], let posts = [...]
SeedUsers ==
    << [id |-> Num(1), name |-> Str("John Doe"), email |-> Str("john@example.com")],
       [id |-> Num(2), name |-> Str("Jane Smith"), email |-> Str("jane@example.com")] >>

SeedPosts ==
    << [id |-> Num(1), title |-> Str("First Post"),
        body |-> Str("This is my first post"), userId |-> Num(1)],
       [id |-> Num(2), title |-> Str("Second Post"),
        body |-> Str("This is my second post"), userId |-> Num(1)],
       [id |-> Num(3), title |-> Str("Hello World"),
        body |-> Str("Just saying hello!"), userId |-> Num(2)] >>

Init ==
    /\ users = SeedUsers
    /\ posts = SeedPosts
    /\ req = Request("", "", NoParam, EmptyObject)
    /\ res = Response(0, "none", EmptyObject)
    /\ old = [users |-> SeedUsers, posts |-> SeedPosts]
    /\ steps = 0

\* What every handler does besides its own work: the request is recorded,
\* and old keeps the two arrays as they were when the request arrived.
Serve(r) ==
    /\ steps < MaxSteps
    /\ steps' = steps + 1
    /\ req' = r
    /\ old' = [users |-> users, posts |-> posts]

(***************************************************************************)
(* Routes for users                                                        *)
(***************************************************************************)
\* app.get('/api/users')
GetUsers ==
    /\ Serve(Request("GET", "users", NoParam, EmptyObject))
    /\ res' = Response(200, "list", users)
    /\ UNCHANGED <<users, posts>>

\* The response of app.get('/api/users/:id') when the array is items.
GetUserResponse(items, param) ==
    LET id == ParseInt(param)
        i == FindIndex(items, id)
    IN  IF i = 0
        THEN Response(404, "error", ErrorBody("User not found"))
        ELSE Response(200, "entity", items[i])

\* app.get('/api/users/:id')
GetUser(param) ==
    /\ Serve(Request("GET", "users", param, EmptyObject))
    /\ res' = GetUserResponse(users, param)
    /\ UNCHANGED <<users, posts>>

\* app.post('/api/users')
PostUser(body) ==
    /\ Serve(Request("POST", "users", NoParam, body))
    /\ LET name == Prop(body, "name")
           email == Prop(body, "email")
           newUser == [id |-> GenerateId(users), name |-> name, email |-> email]
       IN  IF ~Truthy(name) \/ ~Truthy(email)
           THEN /\ res' = Response(400, "error", ErrorBody("Name and email are required"))
                /\ UNCHANGED users
           ELSE /\ users' = Append(users, newUser)
                /\ res' = Response(201, "entity", newUser)
    /\ UNCHANGED posts

\* A PUT that spreads the stored user under the new fields.
PutUserMerging(param, body) ==
    /\ Serve(Request("PUT", "users", param, body))
    /\ LET id == ParseInt(param)
           name == Prop(body, "name")
           email == Prop(body, "email")
           userIndex == FindIndex(users, id)
           user == Spread(users[userIndex], [id |-> id, name |-> name, email |-> email])
       IN  IF userIndex = 0
           THEN /\ res' = Response(404, "error", ErrorBody("User not found"))
                /\ UNCHANGED users
           ELSE IF ~Truthy(name) \/ ~Truthy(email)
           THEN /\ res' = Response(400, "error", ErrorBody("Name and email are required"))
                /\ UNCHANGED users
           ELSE /\ users' = [users EXCEPT ![userIndex] = user]
                /\ res' = Response(200, "entity", user)
    /\ UNCHANGED posts

\* app.put('/api/users/:id')
PutUser(param, body) ==
    /\ Serve(Request("PUT", "users", param, body))
    /\ LET id == ParseInt(param)
           name == Prop(body, "name")
           email == Prop(body, "email")
           userIndex == FindIndex(users, id)
           user == [id |-> id, name |-> name, email |-> email]
       IN  IF userIndex = 0
           THEN /\ res' = Response(404, "error", ErrorBody("User not found"))
                /\ UNCHANGED users
           ELSE IF ~Truthy(name) \/ ~Truthy(email)
           THEN /\ res' = Response(400, "error", ErrorBody("Name and email are required"))
                /\ UNCHANGED users
           ELSE /\ users' = [users EXCEPT ![userIndex] = user]
                /\ res' = Response(200, "entity", user)
    /\ UNCHANGED posts

\* app.patch('/api/users/:id')
PatchUser(param, updates) ==
    /\ Serve(Request("PATCH", "users", param, updates))
    /\ LET id == ParseInt(param)
           userIndex == FindIndex(users, id)
       IN  IF userIndex = 0
           THEN /\ res' = Response(404, "error", ErrorBody("User not found"))
                /\ UNCHANGED users
           ELSE /\ users' = [users EXCEPT ![userIndex] = Spread(users[userIndex], updates)]
                /\ res' = Response(200, "entity", Spread(users[userIndex], updates))
    /\ UNCHANGED posts

\* A DELETE without the check of userIndex: splice(-1, 1) removes the last
\* element.
DeleteUserUnchecked(param) ==
    /\ Serve(Request("DELETE", "users", param, EmptyObject))
    /\ LET id == ParseInt(param)
           userIndex == FindIndex(users, id)
       IN  /\ users' = IF userIndex = 0 THEN SubSeq(users, 1, Len(users) - 1)
                       ELSE Splice(users, userIndex)
           /\ res' = Response(204, "empty", EmptyObject)
    /\ UNCHANGED posts

\* A DELETE that also removes the posts of the deleted user.
DeleteUserCascading(param) ==
    /\ Serve(Request("DELETE", "users", param, EmptyObject))
    /\ LET id == ParseInt(param)
           userIndex == FindIndex(users, id)
       IN  IF userIndex = 0
           THEN /\ res' = Response(404, "error", ErrorBody("User not found"))
                /\ UNCHANGED <<users, posts>>
           ELSE /\ users' = Splice(users, userIndex)
                /\ posts' = SelectSeq(posts, LAMBDA p : Prop(p, "userId") # id)
                /\ res' = Response(204, "empty", EmptyObject)

\* app.delete('/api/users/:id')
DeleteUser(param) ==
    /\ Serve(Request("DELETE", "users", param, EmptyObject))
    /\ LET id == ParseInt(param)
           userIndex == FindIndex(users, id)
       IN  IF userIndex = 0
           THEN /\ res' = Response(404, "error", ErrorBody("User not found"))
                /\ UNCHANGED users
           ELSE /\ users' = Splice(users, userIndex)
                /\ res' = Response(204, "empty", EmptyObject)
    /\ UNCHANGED posts

UserRoutes ==
    \/ GetUsers
    \/ \E param \in IdParams : GetUser(param)
    \/ \E body \in UserBodies : PostUser(body)
    \/ \E param \in IdParams, body \in UserBodies : PutUser(param, body)
    \/ \E param \in IdParams, updates \in UserPatches : PatchUser(param, updates)
    \/ \E param \in IdParams : DeleteUser(param)

(***************************************************************************)
(* Routes for posts                                                        *)
(***************************************************************************)
\* app.get('/api/posts')
GetPosts ==
    /\ Serve(Request("GET", "posts", NoParam, EmptyObject))
    /\ res' = Response(200, "list", posts)
    /\ UNCHANGED <<users, posts>>

\* The response of app.get('/api/posts/:id') when the array is items.
GetPostResponse(items, param) ==
    LET id == ParseInt(param)
        i == FindIndex(items, id)
    IN  IF i = 0
        THEN Response(404, "error", ErrorBody("Post not found"))
        ELSE Response(200, "entity", items[i])

\* app.get('/api/posts/:id')
GetPost(param) ==
    /\ Serve(Request("GET", "posts", param, EmptyObject))
    /\ res' = GetPostResponse(posts, param)
    /\ UNCHANGED <<users, posts>>

\* userId || 1 in app.post('/api/posts')
PostUserId(userId) == IF Truthy(userId) THEN userId ELSE Num(1)

\* app.post('/api/posts')
PostPost(reqBody) ==
    /\ Serve(Request("POST", "posts", NoParam, reqBody))
    /\ LET title == Prop(reqBody, "title")
           body == Prop(reqBody, "body")
           userId == Prop(reqBody, "userId")
           newPost == [id |-> GenerateId(posts), title |-> title, body |-> body,
                       userId |-> PostUserId(userId)]
       IN  IF ~Truthy(title) \/ ~Truthy(body)
           THEN /\ res' = Response(400, "error", ErrorBody("Title and body are required"))
                /\ UNCHANGED posts
           ELSE /\ posts' = Append(posts, newPost)
                /\ res' = Response(201, "entity", newPost)
    /\ UNCHANGED users

\* The default of POST applied to PUT: userId || 1.
PutUserIdDefaulting(userId, post) == IF Truthy(userId) THEN userId ELSE Num(1)

\* userId || posts[postIndex].userId in app.put('/api/posts/:id')
PutUserId(userId, post) == IF Truthy(userId) THEN userId ELSE Prop(post, "userId")

\* A PUT that checks the required fields before it looks the post up.
PutPostValidatingFirst(param, reqBody) ==
    /\ Serve(Request("PUT", "posts", param, reqBody))
    /\ LET id == ParseInt(param)
           title == Prop(reqBody, "title")
           body == Prop(reqBody, "body")
           userId == Prop(reqBody, "userId")
           postIndex == FindIndex(posts, id)
           post == [id |-> id, title |-> title, body |-> body,
                    userId |-> PutUserId(userId, posts[postIndex])]
       IN  IF ~Truthy(title) \/ ~Truthy(body)
           THEN /\ res' = Response(400, "error", ErrorBody("Title and body are required"))
                /\ UNCHANGED posts
           ELSE IF postIndex = 0
           THEN /\ res' = Response(404, "error", ErrorBody("Post not found"))
                /\ UNCHANGED posts
           ELSE /\ posts' = [posts EXCEPT ![postIndex] = post]
                /\ res' = Response(200, "entity", post)
    /\ UNCHANGED users

\* app.put('/api/posts/:id')
PutPost(param, reqBody) ==
    /\ Serve(Request("PUT", "posts", param, reqBody))
    /\ LET id == ParseInt(param)
           title == Prop(reqBody, "title")
           body == Prop(reqBody, "body")
           userId == Prop(reqBody, "userId")
           postIndex == FindIndex(posts, id)
           post == [id |-> id, title |-> title, body |-> body,
                    userId |-> PutUserId(userId, posts[postIndex])]
       IN  IF postIndex = 0
           THEN /\ res' = Response(404, "error", ErrorBody("Post not found"))
                /\ UNCHANGED posts
           ELSE IF ~Truthy(title) \/ ~Truthy(body)
           THEN /\ res' = Response(400, "error", ErrorBody("Title and body are required"))
                /\ UNCHANGED posts
           ELSE /\ posts' = [posts EXCEPT ![postIndex] = post]
                /\ res' = Response(200, "entity", post)
    /\ UNCHANGED users

\* app.patch('/api/posts/:id')
PatchPost(param, updates) ==
    /\ Serve(Request("PATCH", "posts", param, updates))
    /\ LET id == ParseInt(param)
           postIndex == FindIndex(posts, id)
       IN  IF postIndex = 0
           THEN /\ res' = Response(404, "error", ErrorBody("Post not found"))
                /\ UNCHANGED posts
           ELSE /\ posts' = [posts EXCEPT ![postIndex] = Spread(posts[postIndex], updates)]
                /\ res' = Response(200, "entity", Spread(posts[postIndex], updates))
    /\ UNCHANGED users

\* app.delete('/api/posts/:id')
DeletePost(param) ==
    /\ Serve(Request("DELETE", "posts", param, EmptyObject))
    /\ LET id == ParseInt(param)
           postIndex == FindIndex(posts, id)
       IN  IF postIndex = 0
           THEN /\ res' = Response(404, "error", ErrorBody("Post not found"))
                /\ UNCHANGED posts
           ELSE /\ posts' = Splice(posts, postIndex)
                /\ res' = Response(204, "empty", EmptyObject)
    /\ UNCHANGED users

PostRoutes ==
    \/ GetPosts
    \/ \E param \in IdParams : GetPost(param)
    \/ \E reqBody \in PostBodies : PostPost(reqBody)
    \/ \E param \in IdParams, reqBody \in PostBodies : PutPost(param, reqBody)
    \/ \E param \in IdParams, updates \in PostPatches : PatchPost(param, updates)
    \/ \E param \in IdParams : DeletePost(param)

\* app.get('/health')
Health(timestamp) ==
    /\ Serve(Request("GET", "health", NoParam, EmptyObject))
    /\ res' = Response(200, "health",
                       [status |-> Str("OK"), message |-> Str("Server is running"),
                        timestamp |-> Str(timestamp)])
    /\ UNCHANGED <<users, posts>>

Next ==
    \/ UserRoutes
    \/ PostRoutes
    \/ \E timestamp \in Timestamps : Health(timestamp)

Spec == Init /\ [][Next]_vars

(***************************************************************************)
(* Vocabulary of the properties.  old holds the arrays as the last request *)
(* found them, so a property of one request is a predicate of the state    *)
(* that follows it.                                                        *)
(***************************************************************************)
Now(path) == IF path = "users" THEN users ELSE posts

Before(path) == IF path = "users" THEN old.users ELSE old.posts

OnResource == req.path \in {"users", "posts"}

ById == OnResource /\ req.param # NoParam

BothUnchanged == users = old.users /\ posts = old.posts

\* The falsy values among those a JSON body can bind a field to.
Falsy(v) == v \in {Undefined, Null, NaN, Num(0), Str("")}

Required(path) == IF path = "users" THEN {"name", "email"} ELSE {"title", "body"}

Canonical(path) ==
    IF path = "users" THEN {"id", "name", "email"} ELSE {"id", "title", "body", "userId"}

NotFoundBody(path) ==
    [error |-> Str(IF path = "users" THEN "User not found" ELSE "Post not found")]

\* Every required field of the request body is present and truthy.
Complete == \A k \in Required(req.path) : k \in DOMAIN req.body /\ ~Falsy(req.body[k])

\* Some entity of items carries id.
Carries(items, id) ==
    \E i \in 1..Len(items) : "id" \in DOMAIN items[i] /\ items[i].id = id /\ id # NaN

\* The position of the first entity of items that carries id.
First(items, id) ==
    CHOOSE i \in 1..Len(items) :
        /\ items[i].id = id
        /\ \A j \in 1..(i - 1) : items[j].id # id

\* items without its i-th element.
Without(items, i) ==
    [j \in 1..(Len(items) - 1) |-> IF j < i THEN items[j] ELSE items[j + 1]]

\* The response a GET on the last request's id would receive now.
GetNow ==
    IF req.path = "users" THEN GetUserResponse(users, req.param)
    ELSE GetPostResponse(posts, req.param)

\* The ids of items that are numbers.
NumericIds(items) ==
    {items[i].id.n : i \in {j \in 1..Len(items) : items[j].id.t = "number"}}

AllNumericIds(items) == \A i \in 1..Len(items) : items[i].id.t = "number"

NoSharedId(items) ==
    \A i, j \in 1..Len(items) : i # j => items[i].id # items[j].id

\* The route parameter is not a decimal numeral.
NonNumeric(param) == \E i \in 1..Len(param) : ~IsDigit(param[i])

(***************************************************************************)
(* C1: in every reachable state no two users share an id and no two posts  *)
(* share an id.                                                            *)
(***************************************************************************)
C1_UniqueIds == NoSharedId(users) /\ NoSharedId(posts)

\* What remains of C1: a request that finds the ids unique and all numbers
\* leaves them so, unless it is a PATCH whose body owns the key id.
C1_UniqueIdsWithoutIdPatch ==
    \/ /\ NoSharedId(users) /\ NoSharedId(posts)
       /\ AllNumericIds(users) /\ AllNumericIds(posts)
    \/ ~(/\ NoSharedId(old.users) /\ NoSharedId(old.posts)
         /\ AllNumericIds(old.users) /\ AllNumericIds(old.posts))
    \/ req.method = "PATCH" /\ "id" \in DOMAIN req.body

(***************************************************************************)
(* C2: a POST whose required fields are all truthy answers 201 with an     *)
(* entity whose id is the greatest id of the collection before the request *)
(* plus 1, or 1 for an empty collection, and appends that entity, leaving  *)
(* the earlier elements as they were.                                      *)
(***************************************************************************)
C2_CreateAssignsMaxPlusOne ==
    (req.method = "POST" /\ Complete) =>
        LET ids == NumericIds(Before(req.path))
        IN  /\ res.status = 201
            /\ res.kind = "entity"
            /\ res.body.id = (IF ids = {} THEN Num(1) ELSE Num(MaxOf(ids) + 1))
            /\ Now(req.path) = Append(Before(req.path), res.body)

\* What remains of C2: the same, for a collection whose ids are all numbers.
C2_CreateAssignsMaxPlusOneOfNumbers ==
    (/\ req.method = "POST"
     /\ Complete
     /\ AllNumericIds(Before(req.path))) =>
        LET ids == NumericIds(Before(req.path))
        IN  /\ res.status = 201
            /\ res.kind = "entity"
            /\ res.body.id = (IF ids = {} THEN Num(1) ELSE Num(MaxOf(ids) + 1))
            /\ Now(req.path) = Append(Before(req.path), res.body)

(***************************************************************************)
(* C3: the list endpoints return the collection as it stands, and the      *)
(* collection keeps creation order: a POST only appends at the end, a PUT  *)
(* or PATCH changes at most one position and moves nothing, a DELETE takes *)
(* one element out and leaves the others in their order, a GET changes     *)
(* nothing.                                                                *)
(***************************************************************************)
C3_CreationOrderKept ==
    OnResource =>
        LET b == Before(req.path)
            a == Now(req.path)
        IN  /\ (req.method = "GET" /\ req.param = NoParam) =>
                  res.status = 200 /\ res.kind = "list" /\ res.body = a
            /\ req.method = "GET" => a = b
            /\ req.method = "POST" =>
                  a = b \/ (Len(a) = Len(b) + 1 /\ SubSeq(a, 1, Len(b)) = b)
            /\ req.method \in {"PUT", "PATCH"} =>
                  /\ Len(a) = Len(b)
                  /\ Cardinality({j \in 1..Len(b) : a[j] # b[j]}) <= 1
            /\ req.method = "DELETE" =>
                  a = b \/ \E i \in 1..Len(b) : a = Without(b, i)

C3_Witness ==
    /\ req.method = "DELETE"
    /\ req.path = "users"
    /\ res.status = 204
    /\ Len(old.users) = 3
    /\ users = <<old.users[2], old.users[3]>>

(***************************************************************************)
(* C4 as stated: GET-by-id, PUT, PATCH and DELETE on an id that no entity  *)
(* carries, a parameter that is not a numeral included, answer 404 with    *)
(* the resource's error object and leave both collections as they were.    *)
(***************************************************************************)
C4_NotFoundForUncarriedId ==
    (/\ ById
     /\ \/ NonNumeric(req.param)
        \/ ~Carries(Before(req.path), Num(DecimalValue(req.param)))) =>
        /\ res.status = 404
        /\ res.kind = "error"
        /\ res.body = NotFoundBody(req.path)
        /\ BothUnchanged

(***************************************************************************)
(* C4 amended: the same for every parameter that parseInt reads as NaN or  *)
(* as a number no entity carries; a parameter such as 2x, which parseInt   *)
(* reads as 2, addresses the entity 2.                                     *)
(***************************************************************************)
C4_NotFoundForUncarriedParsedId ==
    (ById /\ ~Carries(Before(req.path), ParseInt(req.param))) =>
        /\ res.status = 404
        /\ res.kind = "error"
        /\ res.body = NotFoundBody(req.path)
        /\ BothUnchanged

C4_Witness ==
    /\ req.method = "DELETE"
    /\ req.param = <<"a", "b", "c">>
    /\ res.status = 404
    /\ Len(Before(req.path)) > 0

(***************************************************************************)
(* C5: a POST with a required field missing or falsy answers 400 and       *)
(* creates nothing; a PUT with a required field missing or falsy answers   *)
(* 404 when no entity carries the id and 400 when one does, and in the 400 *)
(* case both collections are as they were.                                 *)
(***************************************************************************)
C5_RequiredFields ==
    /\ (req.method = "POST" /\ ~Complete) => res.status = 400 /\ BothUnchanged
    /\ (req.method = "PUT" /\ ~Complete) =>
          IF Carries(Before(req.path), ParseInt(req.param))
          THEN res.status = 400 /\ BothUnchanged
          ELSE res.status = 404

C5_Witness ==
    /\ req.method = "PUT"
    /\ ~Complete
    /\ res.status = 400
    /\ "name" \in DOMAIN req.body
    /\ req.body.name = Str("")

(***************************************************************************)
(* C6: after a successful PATCH of an existing id, a GET on that id        *)
(* returns the shallow merge of the entity as it was and the body: every   *)
(* key of the body with the body's value, every other field of the entity  *)
(* unchanged.                                                              *)
(***************************************************************************)
C6_GetAfterPatchIsMerge ==
    (req.method = "PATCH" /\ res.status = 200) =>
        LET e == Before(req.path)[First(Before(req.path), ParseInt(req.param))]
            g == GetNow
        IN  /\ g.status = 200
            /\ g.kind = "entity"
            /\ DOMAIN g.body = (DOMAIN e) \cup (DOMAIN req.body)
            /\ \A k \in DOMAIN req.body : g.body[k] = req.body[k]
            /\ \A k \in (DOMAIN e) \ (DOMAIN req.body) : g.body[k] = e[k]

\* What remains of C6: the same, for a body that does not own the key id.
C6_GetAfterPatchWithoutId ==
    (req.method = "PATCH" /\ res.status = 200 /\ "id" \notin DOMAIN req.body) =>
        LET e == Before(req.path)[First(Before(req.path), ParseInt(req.param))]
            g == GetNow
        IN  /\ g.status = 200
            /\ g.kind = "entity"
            /\ DOMAIN g.body = (DOMAIN e) \cup (DOMAIN req.body)
            /\ \A k \in DOMAIN req.body : g.body[k] = req.body[k]
            /\ \A k \in (DOMAIN e) \ (DOMAIN req.body) : g.body[k] = e[k]

(***************************************************************************)
(* C7: a successful PUT replaces the entity at its position by one that    *)
(* carries the same id and owns exactly the canonical keys, whatever other *)
(* keys the body or the stored entity owned; every other entity and the    *)
(* other collection are unchanged.                                         *)
(***************************************************************************)
C7_PutReplacesWithCanonical ==
    (req.method = "PUT" /\ res.status = 200) =>
        LET b == Before(req.path)
            a == Now(req.path)
            i == First(b, ParseInt(req.param))
        IN  /\ Carries(b, ParseInt(req.param))
            /\ Len(a) = Len(b)
            /\ DOMAIN a[i] = Canonical(req.path)
            /\ a[i].id = b[i].id
            /\ \A k \in Required(req.path) : a[i][k] = req.body[k]
            /\ \A j \in 1..Len(b) : j # i => a[j] = b[j]
            /\ res.kind = "entity" /\ res.body = a[i]
            /\ Before(IF req.path = "users" THEN "posts" ELSE "users")
                  = Now(IF req.path = "users" THEN "posts" ELSE "users")

\* A PUT whose body owns other keys, on an entity a PATCH had given one.
C7_Witness ==
    /\ req.method = "PUT"
    /\ req.path = "users"
    /\ res.status = 200
    /\ "role" \in DOMAIN req.body
    /\ "role" \in DOMAIN old.users[First(old.users, ParseInt(req.param))]
    /\ "role" \notin DOMAIN users[First(old.users, ParseInt(req.param))]

(***************************************************************************)
(* C8: a DELETE on an id some entity carries answers 204 and removes the   *)
(* first entity carrying it and nothing else, the others keeping their     *)
(* order, and a GET on that id then answers 404.                           *)
(***************************************************************************)
C8_DeleteThenGetNotFound ==
    (req.method = "DELETE" /\ Carries(Before(req.path), ParseInt(req.param))) =>
        /\ res.status = 204
        /\ Now(req.path) =
              Without(Before(req.path), First(Before(req.path), ParseInt(req.param)))
        /\ GetNow.status = 404

\* What remains of C8: the same, for a collection in which no two entities
\* share an id.
C8_DeleteThenGetNotFoundUnique ==
    (/\ req.method = "DELETE"
     /\ Carries(Before(req.path), ParseInt(req.param))
     /\ NoSharedId(Before(req.path))) =>
        /\ res.status = 204
        /\ Now(req.path) =
              Without(Before(req.path), First(Before(req.path), ParseInt(req.param)))
        /\ GetNow.status = 404

(***************************************************************************)
(* C9: the userId a successful POST stores is the supplied one when that   *)
(* is truthy and 1 otherwise; the userId a successful PUT stores is the    *)
(* supplied one when that is truthy and otherwise the one the post held    *)
(* before the PUT.                                                         *)
(***************************************************************************)
C9_UserIdResolution ==
    LET supplied == IF "userId" \in DOMAIN req.body THEN req.body.userId ELSE Undefined
    IN  /\ (req.method = "POST" /\ req.path = "posts" /\ res.status = 201) =>
              posts[Len(posts)].userId = (IF Falsy(supplied) THEN Num(1) ELSE supplied)
        /\ (req.method = "PUT" /\ req.path = "posts" /\ res.status = 200) =>
              LET i == First(old.posts, ParseInt(req.param))
              IN  posts[i].userId =
                     (IF Falsy(supplied) THEN old.posts[i].userId ELSE supplied)

\* A PUT without a truthy userId on a post whose userId is not 1.
C9_Witness ==
    /\ req.method = "PUT"
    /\ req.path = "posts"
    /\ res.status = 200
    /\ "userId" \notin DOMAIN req.body
    /\ old.posts[First(old.posts, ParseInt(req.param))].userId # Num(1)

(***************************************************************************)
(* C10: a request to a users endpoint leaves posts unchanged, a request to *)
(* a posts endpoint leaves users unchanged, and a GET (list, by id,        *)
(* /health) leaves both unchanged.                                         *)
(***************************************************************************)
C10_Frame ==
    /\ req.path = "users" => posts = old.posts
    /\ req.path = "posts" => users = old.users
    /\ req.method = "GET" => BothUnchanged

\* A user is deleted while a post still refers to it.
C10_Witness ==
    /\ req.method = "DELETE"
    /\ req.path = "users"
    /\ res.status = 204
    /\ \E i \in 1..Len(posts) : posts[i].userId = ParseInt(req.param)

=============================================================================
